---- MODULE Spec2Model ----
(***************************************************************************)
(* The netlink socket interface of net/netlink/netlink_sockif.c: one       *)
(* connection record of the connection pool, the socket handles that       *)
(* reference it, its response queue, its poll registration and the         *)
(* notification bridge that runs netlink_response_available().             *)
(*                                                                         *)
(* Spec      calls as the socket layer issues them when no call on a       *)
(*           handle overlaps the close of that handle and the reference    *)
(*           count is updated one call at a time.                          *)
(* SpecRecv  the receive side, blocking and not, from every task.          *)
(* SpecFlags the receive side with changes of the blocking mode.           *)
(* SpecOps   setup, bind, getsockname, listen and accept.                  *)
(* SpecPeer  connect and getpeername, with bind and getsockname.           *)
(* SpecSend  send and sendto, with connect and bind.                       *)
(* SpecUnpoll poll setups and teardowns in any order, and the callback.    *)
(* SpecPollLive one poller and the producers, with the work queue's        *)
(*           fairness.                                                     *)
(* SpecWake  poll setups and teardowns by their callers, receives that do  *)
(*           not wait and the callback, with the work queue's fairness.    *)
(* SpecRef   the reference count alone, up to the width of its field.      *)
(* SpecRace  netlink_addref() and netlink_close() statement by statement,  *)
(*           and close() overlapping a receive on the same handle.         *)
(* SpecCalls every call that acts on a connection, from one task.          *)
(* SpecLock  netlink_poll and netlink_response_available statement by     *)
(*           statement, with the network lock and the scheduler lock.      *)
(* SpecLive  one blocking receiver and the producers, with the scheduler's *)
(*           fairness.                                                     *)
(*                                                                         *)
(* A behaviour follows the record through one lifetime: taken from the     *)
(* pool by netlink_setup, returned to it by netlink_close.                 *)
(***************************************************************************)
EXTENDS Integers, Sequences, FiniteSets, TLC

(* ------------------------------ bounds --------------------------------- *)

NHandles == 2
NTasks == 2
NPollFds == 2
MaxMsgs == 2

(* SpecRace stops duplicating once the count, which lost updates let       *)
(* drift from the number of handles, has reached MaxDrift.                 *)
MaxDrift == 3

Handles == 1 .. NHandles
Tasks == 1 .. NTasks
PollFds == 1 .. NPollFds

(* Declared message lengths (nlmsg_len) and receive buffer lengths.        *)
MsgLens == {2, 4}
BufLens == {3}

(* --------------------------- program constants ------------------------- *)

NULL == 0
OK == 0
UINT8_MOD == 256
CREFS_LIMIT == 255
NETLINK_ROUTE == 0
EAGAIN == 11
ENOMEM == 12
EBUSY == 16
EPROTONOSUPPORT == 93
EOPNOTSUPP == 95
Protocols == {NETLINK_ROUTE, 1}
SockTypes == {"SOCK_DGRAM", "SOCK_RAW", "SOCK_STREAM"}
Domains == {"PF_NETLINK", "PF_INET"}
EventSets == SUBSET {"POLLIN", "POLLOUT"}

VARIABLES
    sock,      \* sock[h]: the socket handle h: s_conn attached, _SS_NONBLOCK
    others,    \* handles of other descriptor tables that share the connection
    conn,      \* the connection record (struct netlink_conn_s)
    notif,     \* the bridge holds a subscription for the connection
    work,      \* callbacks signalled by the bridge and not yet run
    fds,       \* fds[p]: one caller's struct pollfd and its semaphore
    task,      \* task[t]: the call task t is in and its locals
    last,      \* the last call that returned and the value it returned
    nextid,    \* identifier of the next response a backend creates
    deq,       \* history: identifiers in the order they were dequeued
    got,       \* history: identifiers in the order receive calls returned them
    lost,      \* history: identifiers freed unread by netlink_free
    frees,     \* history: netlink_free calls on the connection
    early,     \* history: a free happened while a handle was still attached
    uaf,       \* history: accesses to the record after it was freed
    addr,      \* the struct sockaddr_nl of the caller of the last address call
    bound,     \* history: the arguments and the caller of the last netlink_bind
    linked,    \* history: the arguments and the caller of the last netlink_connect
    sent,      \* what the protocol backend was last called with
    netlock,   \* who holds the network lock
    lockcount, \* scheduler lock count of the work queue thread
    cbpc,      \* where the work queue thread is in the callback
    tdpc       \* where the caller of a poll teardown is in it

hist == <<deq, got, lost, frees, early, uaf>>

(* The locks and the positions of the calls that are followed statement by *)
(* statement in SpecLock.                                                  *)
lk == <<netlock, lockcount, cbpc, tdpc>>

(* What the calls on the queue, the count and the registration leave       *)
(* alone.                                                                  *)
io == <<addr, bound, linked, sent, lk>>

vars == <<sock, others, conn, notif, work, fds, task, last, nextid, hist, io>>

(* ------------------------------ helpers -------------------------------- *)

NoEntry == [id |-> 0, len |-> 0]

ZeroConn ==
    [alloc |-> FALSE, protocol |-> 0, crefs |-> 0, pid |-> 0, groups |-> 0,
     dst_pid |-> 0, dst_groups |-> 0,
     pollsem |-> NULL, pollevent |-> NULL, resplist |-> <<>>]

NoAddr == [family |-> "AF_UNSPEC", pad |-> 0, pid |-> 0, groups |-> 0]

Unbound == [set |-> FALSE, pid |-> 0, groups |-> 0, caller |-> 0]

Unlinked == [set |-> FALSE, pid |-> 0, groups |-> 0, caller |-> 0]

NoCall == [made |-> FALSE, len |-> 0, to |-> NoAddr]

ClosedSock == [conn |-> FALSE, nonblock |-> FALSE]

IdleFd == [active |-> FALSE, h |-> 0, revents |-> {}, sem |-> 0]

IdleTask ==
    [pc |-> "idle", h |-> 0, entry |-> NoEntry, len |-> 0, wsem |-> 0, tmp |-> 0]

Returned(op, ret) == [op |-> op, ret |-> ret]

Range(s) == {s[i] : i \in 1 .. Len(s)}

Ids(s) == {s[i].id : i \in 1 .. Len(s)}

LiveHandles == {h \in Handles : sock[h].conn}

(* The handles that reference the connection.                              *)
LiveCount == Cardinality(LiveHandles) + others

(* No call of a task is in progress on handle h.                           *)
Quiet(h) == \A t \in Tasks : task[t].pc = "idle" \/ task[t].h # h

(* ------------------------- netlink_setup ------------------------------- *)

(* Variant: every protocol is let through.                                 *)
ProtocolSupported_Any(protocol) == TRUE

ProtocolSupported(protocol) == protocol = NETLINK_ROUTE

(* Variant: the socket type is not verified.                               *)
TypeSupported_AnyType(domain, type) == domain = "PF_NETLINK"

TypeSupported(domain, type) ==
    domain = "PF_NETLINK" /\ (type = "SOCK_RAW" \/ type = "SOCK_DGRAM")

(* netlink_alloc: a zeroed record taken from the pool, or none.            *)
netlink_alloc == [ZeroConn EXCEPT !.alloc = TRUE]

SetupResult(protocol, domain, type, mem) ==
    IF ~ProtocolSupported(protocol) THEN -EPROTONOSUPPORT
    ELSE IF ~TypeSupported(domain, type) THEN -EPROTONOSUPPORT
    ELSE IF ~mem THEN -ENOMEM
    ELSE OK

(* netlink_setup on handle h, whose s_domain and s_type the socket layer   *)
(* has set; mem: netlink_alloc has a record to give.                       *)
SetupIn(h, protocol, domain, type, nb, mem) ==
    /\ ~conn.alloc
    /\ frees = 0
    /\ LiveCount = 0
    /\ LET r == SetupResult(protocol, domain, type, mem) IN
       /\ last' = Returned("setup", r)
       /\ IF r = OK
          THEN /\ conn' = [netlink_alloc EXCEPT !.protocol = protocol, !.crefs = 1]
               /\ sock' = [sock EXCEPT ![h] = [conn |-> TRUE, nonblock |-> nb]]
          ELSE UNCHANGED <<conn, sock>>
    /\ UNCHANGED <<io, others, notif, work, fds, task, nextid, hist>>

(* The socket layer calls netlink_setup for sockets of PF_NETLINK.         *)
Setup(h, protocol, type, nb, mem) ==
    SetupIn(h, protocol, "PF_NETLINK", type, nb, mem)

(* ------------------------- netlink_addref ------------------------------ *)

(* Variant: the assertion admits the increment of a full count.           *)
AddrefPre_Full(c) == c > 0 /\ c <= CREFS_LIMIT

AddrefPre(c) == c > 0 /\ c < CREFS_LIMIT

AddrefInc(c) == (c + 1) % UINT8_MOD

(* dup: the socket layer copies the handle and calls si_addref on it.      *)
Dup(h, h2, nb) ==
    /\ sock[h].conn
    /\ ~sock[h2].conn
    /\ conn.alloc
    /\ AddrefPre(conn.crefs)
    /\ conn' = [conn EXCEPT !.crefs = AddrefInc(conn.crefs)]
    /\ sock' = [sock EXCEPT ![h2] = [conn |-> TRUE, nonblock |-> nb]]
    /\ UNCHANGED <<io, others, notif, work, fds, task, last, nextid, hist>>

(* The copy goes to a descriptor table that is not modelled.               *)
DupOther(h) ==
    /\ sock[h].conn
    /\ conn.alloc
    /\ AddrefPre(conn.crefs)
    /\ conn' = [conn EXCEPT !.crefs = AddrefInc(conn.crefs)]
    /\ others' = others + 1
    /\ UNCHANGED <<io, sock, notif, work, fds, task, last, nextid, hist>>

(* ------------------------- netlink_close ------------------------------- *)

(* Variant: the last-reference test is off by one.                         *)
CloseIsLast_OffByOne(c) == c <= 2

CloseIsLast(c) == c <= 1

CloseDec(c) == (c - 1) % UINT8_MOD

(* netlink_free: the queued responses are freed and the record returns to  *)
(* the pool; its other fields keep what they held.                         *)
netlink_free(c) == [c EXCEPT !.alloc = FALSE, !.resplist = <<>>]

CloseConn(c) ==
    IF CloseIsLast(c.crefs)
    THEN netlink_free([c EXCEPT !.crefs = 0])
    ELSE [c EXCEPT !.crefs = CloseDec(c.crefs)]

(* What a netlink_close that finds the count c adds to the history.        *)
CloseHist(c, stillLive) ==
    /\ lost' = IF CloseIsLast(c) THEN lost \cup Ids(conn.resplist) ELSE lost
    /\ frees' = IF CloseIsLast(c) THEN frees + 1 ELSE frees
    /\ early' = (early \/ (CloseIsLast(c) /\ stillLive))
    /\ UNCHANGED <<deq, got, uaf>>

Close(h) ==
    /\ sock[h].conn
    /\ conn.alloc
    /\ Quiet(h)
    /\ conn' = CloseConn(conn)
    /\ sock' = [sock EXCEPT ![h] = ClosedSock]
    /\ CloseHist(conn.crefs, LiveCount > 1)
    /\ UNCHANGED <<io, others, notif, work, fds, task, last, nextid>>

CloseOther ==
    /\ others > 0
    /\ conn.alloc
    /\ conn' = CloseConn(conn)
    /\ others' = others - 1
    /\ CloseHist(conn.crefs, LiveCount > 1)
    /\ UNCHANGED <<io, sock, notif, work, fds, task, last, nextid>>

(* ---------------- response queue and notification bridge --------------- *)

netlink_check_response(c) == c.resplist # <<>>

(* netlink_tryget_response: the head of the queue leaves it.               *)
TrygetEntry(q) == Head(q)

(* Variant: the head is read and stays queued.                             *)
TrygetRest_Peek(q) == q

TrygetRest(q) == Tail(q)

(* netlink_add_response: the response goes to the tail of the queue, the   *)
(* receivers suspended on the connection are released and the bridge       *)
(* schedules the callback of its subscription, which is single-shot.       *)
Enqueue(h, len) ==
    /\ sock[h].conn
    /\ conn.alloc
    /\ nextid <= MaxMsgs
    /\ conn' = [conn EXCEPT !.resplist = Append(@, [id |-> nextid, len |-> len])]
    /\ nextid' = nextid + 1
    /\ task' = [t \in Tasks |->
                  IF task[t].pc = "wait" THEN [task[t] EXCEPT !.wsem = 1]
                  ELSE task[t]]
    /\ notif' = FALSE
    /\ work' = IF notif THEN work + 1 ELSE work
    /\ UNCHANGED <<io, sock, others, fds, last, hist>>

(* ------------------------- netlink_recvfrom ---------------------------- *)

(* Variant: the socket's own non-blocking flag is not looked at.           *)
RecvNoWait_FlagOnly(nonblock, dontwait) == dontwait

(* Variant: MSG_DONTWAIT is not looked at.                                 *)
RecvNoWait_NonblockOnly(nonblock, dontwait) == nonblock

(* Variant: an empty queue never makes the caller wait.                    *)
RecvNoWait_Always(nonblock, dontwait) == TRUE

(* Variant: the non-blocking mode is that of any handle of the connection. *)
RecvNoWait_Shared(nonblock, dontwait) ==
    dontwait \/ \E h \in Handles : sock[h].conn /\ sock[h].nonblock

RecvNoWait(nonblock, dontwait) == nonblock \/ dontwait

(* The socket layer sets or clears _SS_NONBLOCK in the s_flags of handle h *)
(* (fcntl with O_NONBLOCK).                                                *)
SetNonblock(h, nb) ==
    /\ sock[h].conn
    /\ sock[h].nonblock # nb
    /\ sock' = [sock EXCEPT ![h].nonblock = nb]
    /\ UNCHANGED <<io, others, conn, notif, work, fds, task, last, nextid, hist>>

(* Variant: the declared length is used whatever the buffer holds.        *)
RecvLen_Declared(len, msglen) == msglen

RecvLen(len, msglen) == IF len > msglen THEN msglen ELSE len

(* netlink_tryget_response, then the non-blocking test, then the wait of   *)
(* netlink_get_response.                                                   *)
RecvTry(t, h, len, dontwait) ==
    /\ task[t].pc = "idle"
    /\ sock[h].conn
    /\ conn.alloc
    /\ IF netlink_check_response(conn)
       THEN /\ last' = last
            /\ task' = [task EXCEPT ![t] = [@ EXCEPT !.pc = "copy", !.h = h,
                           !.len = len, !.entry = TrygetEntry(conn.resplist)]]
            /\ conn' = [conn EXCEPT !.resplist = TrygetRest(@)]
            /\ deq' = Append(deq, TrygetEntry(conn.resplist).id)
       ELSE /\ IF RecvNoWait(sock[h].nonblock, dontwait)
               THEN /\ task' = task
                    /\ last' = Returned("recv", -EAGAIN)
               ELSE /\ task' = [task EXCEPT ![t] = [@ EXCEPT !.pc = "wait",
                                     !.h = h, !.len = len, !.wsem = 0]]
                    /\ last' = last
            /\ UNCHANGED <<conn, deq>>
    /\ UNCHANGED <<io, sock, others, notif, work, fds, nextid, got, lost, frees, early, uaf>>

(* The suspended receiver was released: it looks at the queue again.  On a *)
(* record already returned to the pool the read finds nothing or whatever  *)
(* the memory holds.                                                       *)
RecvWake(t, garbage) ==
    /\ task[t].pc = "wait"
    /\ task[t].wsem = 1
    /\ IF conn.alloc
       THEN /\ garbage = FALSE
            /\ uaf' = uaf
            /\ IF netlink_check_response(conn)
               THEN /\ task' = [task EXCEPT ![t] = [@ EXCEPT !.pc = "copy",
                                   !.wsem = 0, !.entry = TrygetEntry(conn.resplist)]]
                    /\ conn' = [conn EXCEPT !.resplist = TrygetRest(@)]
                    /\ deq' = Append(deq, TrygetEntry(conn.resplist).id)
               ELSE /\ task' = [task EXCEPT ![t] = [@ EXCEPT !.wsem = 0]]
                    /\ UNCHANGED <<conn, deq>>
       ELSE /\ uaf' = uaf \cup {"recv"}
            /\ IF garbage
               THEN task' = [task EXCEPT ![t] = [@ EXCEPT !.pc = "copy",
                                !.wsem = 0, !.entry = NoEntry]]
               ELSE task' = [task EXCEPT ![t] = [@ EXCEPT !.wsem = 0]]
            /\ UNCHANGED <<conn, deq>>
    /\ UNCHANGED <<io, sock, others, notif, work, fds, last, nextid, got, lost, frees, early>>

(* The copy to the caller's buffer, kmm_free of the entry, the return.     *)
RecvCopy(t) ==
    /\ task[t].pc = "copy"
    /\ task' = [task EXCEPT ![t] = IdleTask]
    /\ last' = Returned("recv", RecvLen(task[t].len, task[t].entry.len))
    /\ got' = Append(got, task[t].entry.id)
    /\ UNCHANGED <<io, sock, others, conn, notif, work, fds, nextid, deq, lost, frees,
                   early, uaf>>

(* --------------------------- netlink_poll ------------------------------ *)

(* Variant: writability is not reported.                                   *)
PollRevents_InOnly(events, hasresp) ==
    (IF hasresp THEN {"POLLIN"} ELSE {}) \cap events

(* Variant: readability is reported whatever the queue holds.              *)
PollRevents_InAlways(events, hasresp) == {"POLLOUT", "POLLIN"} \cap events

PollRevents(events, hasresp) ==
    ({"POLLOUT"} \cup (IF hasresp THEN {"POLLIN"} ELSE {})) \cap events

(* Variant: the test for an outstanding registration is missing.          *)
PollBusy_Never(c) == FALSE

PollBusy(c) == c.pollsem # NULL \/ c.pollevent # NULL

(* Variant: the event word of the caller is not recorded.                  *)
PollRecord_SemOnly(c, p) == [c EXCEPT !.pollsem = p]

(* The caller's semaphore and event word become the registration.          *)
PollRecord(c, p) == [c EXCEPT !.pollsem = p, !.pollevent = p]

(* Variant: a subscription that failed leaves the registration recorded.   *)
PollRollback_Keep(c) == c

(* netlink_notifier_setup failed: both pointers are cleared again.         *)
PollRollback(c) == [c EXCEPT !.pollsem = NULL, !.pollevent = NULL]

(* netlink_poll(psock, fds, true) on pollfd p, from net_lock to            *)
(* net_unlock; nret is what netlink_notifier_setup returns when it is      *)
(* called.                                                                 *)
PollSetupBody(p, h, events, nret) ==
    /\ ~fds[p].active
    /\ sock[h].conn
    /\ conn.alloc
    /\ LET revents == PollRevents(events, netlink_check_response(conn))
           armed == [IdleFd EXCEPT !.active = TRUE, !.h = h]
       IN
       IF revents # {}
       THEN /\ nret = OK
            /\ fds' = [fds EXCEPT ![p] = [armed EXCEPT !.revents = revents,
                          !.sem = 1]]
            /\ last' = Returned("poll", OK)
            /\ UNCHANGED <<conn, notif>>
       ELSE IF "POLLIN" \in events
       THEN IF PollBusy(conn)
            THEN /\ nret = OK
                 /\ last' = Returned("poll", -EBUSY)
                 /\ UNCHANGED <<conn, notif, fds>>
            ELSE IF nret < 0
            THEN /\ last' = Returned("poll", nret)
                 /\ conn' = PollRollback(PollRecord(conn, p))
                 /\ UNCHANGED <<notif, fds>>
            ELSE /\ fds' = [fds EXCEPT ![p] = armed]
                 /\ last' = Returned("poll", nret)
                 /\ conn' = PollRecord(conn, p)
                 /\ notif' = TRUE
       ELSE /\ nret = OK
            /\ fds' = [fds EXCEPT ![p] = armed]
            /\ last' = Returned("poll", OK)
            /\ UNCHANGED <<conn, notif>>

PollSetup(p, h, events, nret) ==
    /\ PollSetupBody(p, h, events, nret)
    /\ UNCHANGED <<io, sock, others, work, task, nextid, hist>>

(* netlink_poll(psock, fds, false): netlink_notifier_teardown, then both   *)
(* pointers are cleared.                                                   *)
PollTeardown(p) ==
    /\ fds[p].active
    /\ sock[fds[p].h].conn
    /\ conn.alloc
    /\ notif' = FALSE
    /\ conn' = [conn EXCEPT !.pollsem = NULL, !.pollevent = NULL]
    /\ fds' = [fds EXCEPT ![p] = IdleFd]
    /\ last' = Returned("unpoll", OK)
    /\ UNCHANGED <<io, sock, others, work, task, nextid, hist>>

(* Variant: the event word stays recorded.                                 *)
PollCleared_SemOnly(c) == [c EXCEPT !.pollsem = NULL]

PollCleared(c) == [c EXCEPT !.pollsem = NULL, !.pollevent = NULL]

(* Variant: a teardown cancels only a registration that was made through   *)
(* the handle it is called on.                                             *)
Unpoll_OwnOnly(h) ==
    /\ sock[h].conn
    /\ conn.alloc
    /\ LET own == conn.pollsem = NULL \/ fds[conn.pollsem].h = h IN
       /\ notif' = (notif /\ ~own)
       /\ conn' = IF own THEN PollCleared(conn) ELSE conn
    /\ last' = Returned("unpoll", OK)
    /\ UNCHANGED <<io, sock, others, work, fds, task, nextid, hist>>

(* netlink_poll(psock, fds, false) on handle h, whether or not a setup     *)
(* went before it: the caller's pollfd is not looked at.                   *)
Unpoll(h) ==
    /\ sock[h].conn
    /\ conn.alloc
    /\ notif' = FALSE
    /\ conn' = PollCleared(conn)
    /\ last' = Returned("unpoll", OK)
    /\ UNCHANGED <<io, sock, others, work, fds, task, nextid, hist>>

(* --------------------- netlink_response_available ---------------------- *)

(* Variant: the callback never finds a registration.                       *)
CallbackArmed_Never(c) == FALSE

CallbackArmed(c) == c.pollsem # NULL /\ c.pollevent # NULL

(* Variant: the registration outlives the callback.                        *)
CallbackCleared_Keep(c) == c

(* "Allow another poll()": both pointers are cleared.                      *)
CallbackCleared(c) == [c EXCEPT !.pollsem = NULL, !.pollevent = NULL]

(* The work queue runs the callback on the record it was subscribed with.  *)
(* stale: what a read of a record already returned to the pool yields, its *)
(* old contents (TRUE) or zeroes.                                          *)
ResponseAvailableBody(stale) ==
    /\ work > 0
    /\ work' = work - 1
    /\ (conn.alloc => stale)
    /\ LET seen == IF stale THEN conn ELSE ZeroConn IN
       uaf' = IF conn.alloc THEN uaf
              ELSE uaf \cup {"callback"}
                       \cup (IF CallbackArmed(seen) THEN {"post"} ELSE {})
    /\ LET seen == IF stale THEN conn ELSE ZeroConn IN
       IF CallbackArmed(seen)
       THEN fds' = [q \in PollFds |->
                      [fds[q] EXCEPT
                         !.revents = IF q = seen.pollevent THEN @ \cup {"POLLIN"} ELSE @,
                         !.sem = IF q = seen.pollsem THEN @ + 1 ELSE @]]
       ELSE fds' = fds
    /\ conn' = CallbackCleared(conn)

ResponseAvailable(stale) ==
    /\ ResponseAvailableBody(stale)
    /\ UNCHANGED <<io, sock, others, notif, task, last, nextid, deq, got, lost, frees, early>>

(* ----------------- netlink_bind, netlink_getsockname -------------------- *)

(* nl_pid and nl_groups values a caller passes.                            *)
NlPids == {0, 1}
NlGroups == {0, 3}

(* getpid() in task t.                                                     *)
getpid(t) == t

(* Variant: an unspecified nl_pid is stored as it is.                      *)
BindPid_Raw(nl_pid, t) == nl_pid

BindPid(nl_pid, t) == IF nl_pid # 0 THEN nl_pid ELSE getpid(t)

Bind(t, h, nl_pid, nl_groups) ==
    /\ task[t].pc = "idle"
    /\ sock[h].conn
    /\ conn.alloc
    /\ conn' = [conn EXCEPT !.pid = BindPid(nl_pid, t), !.groups = nl_groups]
    /\ addr' = [family |-> "AF_NETLINK", pad |-> 0, pid |-> nl_pid,
                groups |-> nl_groups]
    /\ bound' = [set |-> TRUE, pid |-> nl_pid, groups |-> nl_groups, caller |-> t]
    /\ last' = Returned("bind", OK)
    /\ UNCHANGED <<sock, others, notif, work, fds, task, nextid, hist, linked, sent, lk>>

GetSockName(t, h) ==
    /\ task[t].pc = "idle"
    /\ sock[h].conn
    /\ conn.alloc
    /\ addr' = [family |-> "AF_NETLINK", pad |-> 0, pid |-> conn.pid,
                groups |-> conn.groups]
    /\ last' = Returned("getsockname", OK)
    /\ UNCHANGED <<sock, others, conn, notif, work, fds, task, nextid, hist, bound,
                   linked, sent, lk>>

(* --------------- netlink_connect, netlink_getpeername ------------------- *)

(* nl_pad values the caller's structure holds.                             *)
NlPads == {0, 7}

(* Variant: the peer's groups are not stored.                              *)
ConnectDst_PidOnly(c, nl_pid, nl_groups) == [c EXCEPT !.dst_pid = nl_pid]

ConnectDst(c, nl_pid, nl_groups) ==
    [c EXCEPT !.dst_pid = nl_pid, !.dst_groups = nl_groups]

Connect(t, h, nl_pid, nl_groups, nl_pad) ==
    /\ task[t].pc = "idle"
    /\ sock[h].conn
    /\ conn.alloc
    /\ conn' = ConnectDst(conn, nl_pid, nl_groups)
    /\ addr' = [family |-> "AF_NETLINK", pad |-> nl_pad, pid |-> nl_pid,
                groups |-> nl_groups]
    /\ linked' = [set |-> TRUE, pid |-> nl_pid, groups |-> nl_groups, caller |-> t]
    /\ last' = Returned("connect", OK)
    /\ UNCHANGED <<sock, others, notif, work, fds, task, nextid, hist, bound, sent,
                   lk>>

(* Variant: the local address is returned in place of the peer's.          *)
PeerName_Local(c) ==
    [family |-> "AF_NETLINK", pad |-> 0, pid |-> c.pid, groups |-> c.groups]

(* memset of the caller's structure, then the three fields.                *)
PeerName(c) ==
    [family |-> "AF_NETLINK", pad |-> 0, pid |-> c.dst_pid, groups |-> c.dst_groups]

GetPeerName(t, h) ==
    /\ task[t].pc = "idle"
    /\ sock[h].conn
    /\ conn.alloc
    /\ addr' = PeerName(conn)
    /\ last' = Returned("getpeername", OK)
    /\ UNCHANGED <<sock, others, conn, notif, work, fds, task, nextid, hist, bound,
                   linked, sent, lk>>

(* ------------------ netlink_send, netlink_sendto ------------------------ *)

(* Lengths of the messages sent: a header alone, a header and a body.      *)
SendLens == {16, 20}

(* What netlink_route_sendto returns for a message of len bytes.           *)
BackendResults(len) == {len, -ENOMEM}

Dest(nl_pid, nl_groups) ==
    [family |-> "AF_NETLINK", pad |-> 0, pid |-> nl_pid, groups |-> nl_groups]

(* The switch on conn->protocol: the value netlink_sendto returns and the  *)
(* call the backend gets, bret being what netlink_route_sendto returns.    *)
SendtoRet(c, bret) == IF c.protocol = NETLINK_ROUTE THEN bret ELSE -EOPNOTSUPP

SendtoCall(c, len, to, old) ==
    IF c.protocol = NETLINK_ROUTE
    THEN [made |-> TRUE, len |-> len, to |-> to]
    ELSE old

SendtoBody(op, t, h, len, to, bret) ==
    /\ task[t].pc = "idle"
    /\ sock[h].conn
    /\ conn.alloc
    /\ sent' = SendtoCall(conn, len, to, sent)
    /\ last' = Returned(op, SendtoRet(conn, bret))
    /\ UNCHANGED <<sock, others, conn, notif, work, fds, task, nextid, hist, addr,
                   bound, linked, lk>>

SendTo(t, h, len, to, bret) == SendtoBody("sendto", t, h, len, to, bret)

(* Variant: the destination is formatted from the local address.           *)
SendDest_Local(c) ==
    [family |-> "AF_NETLINK", pad |-> 0, pid |-> c.pid, groups |-> c.groups]

(* The address netlink_send formats for netlink_sendto.                    *)
SendDest(c) ==
    [family |-> "AF_NETLINK", pad |-> 0, pid |-> c.dst_pid, groups |-> c.dst_groups]

Send(t, h, len, bret) == SendtoBody("send", t, h, len, SendDest(conn), bret)

(* ------------------- netlink_listen, netlink_accept -------------------- *)

Backlogs == {0, 1}

(* Variant: listen reports success.                                        *)
ListenResult_Ok(backlog) == OK

ListenResult(backlog) == -EOPNOTSUPP

AcceptResult(newsock) == -EOPNOTSUPP

Listen(h, backlog) ==
    /\ sock[h].conn
    /\ conn.alloc
    /\ last' = Returned("listen", ListenResult(backlog))
    /\ UNCHANGED <<io, sock, others, conn, notif, work, fds, task, nextid, hist>>

Accept(h, newsock) ==
    /\ sock[h].conn
    /\ ~sock[newsock].conn
    /\ conn.alloc
    /\ last' = Returned("accept", AcceptResult(newsock))
    /\ UNCHANGED <<io, sock, others, conn, notif, work, fds, task, nextid, hist>>

(* ---------------------------- specification ---------------------------- *)

Init ==
    /\ sock = [h \in Handles |-> ClosedSock]
    /\ others = 0
    /\ conn = ZeroConn
    /\ notif = FALSE
    /\ work = 0
    /\ fds = [p \in PollFds |-> IdleFd]
    /\ task = [t \in Tasks |-> IdleTask]
    /\ last = Returned("none", OK)
    /\ nextid = 1
    /\ deq = <<>>
    /\ got = <<>>
    /\ lost = {}
    /\ frees = 0
    /\ early = FALSE
    /\ uaf = {}
    /\ addr = NoAddr
    /\ bound = Unbound
    /\ linked = Unlinked
    /\ sent = NoCall
    /\ netlock = "free"
    /\ lockcount = 0
    /\ cbpc = "idle"
    /\ tdpc = "idle"

(* The calls common to every specification below: the connection's       *)
(* lifetime and the producer side.                                         *)
Lifetime(nbs, lens) ==
    \/ \E h \in Handles, pr \in Protocols, ty \in SockTypes, nb \in nbs,
          mem \in BOOLEAN : Setup(h, pr, ty, nb, mem)
    \/ \E h, h2 \in Handles, nb \in nbs : Dup(h, h2, nb)
    \/ \E h \in Handles : Close(h)
    \/ \E h \in Handles, len \in lens : Enqueue(h, len)

(* Spec: poll, the delivery callback and receives that do not wait.        *)
Next ==
    \/ Lifetime({FALSE}, {4})
    \/ \E t \in Tasks, h \in Handles, len \in BufLens : RecvTry(t, h, len, TRUE)
    \/ \E t \in Tasks : RecvCopy(t)
    \/ \E p \in PollFds, h \in Handles, ev \in EventSets, nret \in {OK, -ENOMEM} :
          PollSetup(p, h, ev, nret)
    \/ \E p \in PollFds : PollTeardown(p)
    \/ \E stale \in BOOLEAN : ResponseAvailable(stale)

Spec == Init /\ [][Next]_vars

(* SpecRecv: the receive side, blocking and not, on every handle and from  *)
(* every task.                                                             *)
NextRecv ==
    \/ Lifetime(BOOLEAN, MsgLens)
    \/ \E t \in Tasks, h \in Handles, len \in BufLens, dw \in BOOLEAN :
          RecvTry(t, h, len, dw)
    \/ \E t \in Tasks : RecvWake(t, FALSE)
    \/ \E t \in Tasks : RecvCopy(t)

SpecRecv == Init /\ [][NextRecv]_vars

(* SpecFlags: the receive side while the handles change their blocking    *)
(* mode.                                                                   *)
NextFlags ==
    \/ Lifetime(BOOLEAN, {4})
    \/ \E h \in Handles, nb \in BOOLEAN : SetNonblock(h, nb)
    \/ \E t \in Tasks, h \in Handles, len \in BufLens, dw \in BOOLEAN :
          RecvTry(t, h, len, dw)
    \/ \E t \in Tasks : RecvWake(t, FALSE)
    \/ \E t \in Tasks : RecvCopy(t)

SpecFlags == Init /\ [][NextFlags]_vars

(* SpecRef: the reference count through setup, dup and close, over as     *)
(* many handles as its field can count.                                    *)
NextRef ==
    \/ \E h \in Handles, pr \in Protocols, ty \in SockTypes, mem \in BOOLEAN :
          Setup(h, pr, ty, FALSE, mem)
    \/ \E h, h2 \in Handles : Dup(h, h2, FALSE)
    \/ \E h \in Handles : DupOther(h)
    \/ \E h \in Handles : Close(h)
    \/ CloseOther

SpecRef == Init /\ [][NextRef]_vars

(* SpecLive: task 1 receives, blocking, on any handle while the backends    *)
(* enqueue.  The scheduler runs a released task and a task that holds a    *)
(* response, hence the weak fairness of the two steps.                     *)
NextLive ==
    \/ Lifetime({FALSE}, MsgLens)
    \/ \E h \in Handles, len \in BufLens : RecvTry(1, h, len, FALSE)
    \/ RecvWake(1, FALSE)
    \/ RecvCopy(1)

SpecLive ==
    Init /\ [][NextLive]_vars /\ WF_vars(RecvWake(1, FALSE)) /\ WF_vars(RecvCopy(1))

(* SpecPollLive: one poller, on pollfd 1, while the backends enqueue.  The *)
(* work queue runs every callback the bridge has scheduled, hence the weak *)
(* fairness of netlink_response_available.                                 *)
NextPollLive ==
    \/ Lifetime({FALSE}, {4})
    \/ \E h \in Handles, ev \in EventSets, nret \in {OK, -ENOMEM} :
          PollSetup(1, h, ev, nret)
    \/ PollTeardown(1)
    \/ \E stale \in BOOLEAN : ResponseAvailable(stale)

SpecPollLive ==
    /\ Init /\ [][NextPollLive]_vars
    /\ WF_vars(\E stale \in BOOLEAN : ResponseAvailable(stale))

(* SpecUnpoll: poll setups and poll teardowns in any order and number on  *)
(* the handles of the connection.                                          *)
NextUnpoll ==
    \/ Lifetime({FALSE}, {4})
    \/ \E p \in PollFds, h \in Handles, ev \in EventSets, nret \in {OK, -ENOMEM} :
          PollSetup(p, h, ev, nret)
    \/ \E h \in Handles : Unpoll(h)
    \/ \E stale \in BOOLEAN : ResponseAvailable(stale)

SpecUnpoll == Init /\ [][NextUnpoll]_vars

(* SpecWake: on the one handle of a connection that stays open the        *)
(* pollers set up and tear down their polls while the backends enqueue and *)
(* task 1 drains the queue without waiting.  The work queue runs every     *)
(* callback the bridge has scheduled.                                      *)
NextWake ==
    \/ \E h \in Handles, pr \in Protocols, ty \in SockTypes, mem \in BOOLEAN :
          Setup(h, pr, ty, FALSE, mem)
    \/ \E h \in Handles : Enqueue(h, 4)
    \/ \E h \in Handles, len \in BufLens : RecvTry(1, h, len, TRUE)
    \/ RecvCopy(1)
    \/ \E p \in PollFds, h \in Handles, ev \in EventSets, nret \in {OK, -ENOMEM} :
          PollSetup(p, h, ev, nret)
    \/ \E p \in PollFds : PollTeardown(p)
    \/ \E stale \in BOOLEAN : ResponseAvailable(stale)

SpecWake ==
    /\ Init /\ [][NextWake]_vars
    /\ WF_vars(\E stale \in BOOLEAN : ResponseAvailable(stale))

(* netlink_addref and netlink_close take no lock: each is a read of crefs  *)
(* followed by a write, and calls of other tasks run between the two.      *)
(* psock_dup attaches the connection to the new handle and then calls      *)
(* netlink_addref on it.                                                   *)
AddrefStart(t, h, h2) ==
    /\ task[t].pc = "idle"
    /\ sock[h].conn
    /\ ~sock[h2].conn
    /\ conn.alloc
    /\ AddrefPre(conn.crefs)
    /\ conn.crefs < MaxDrift
    /\ sock' = [sock EXCEPT ![h2] = sock[h]]
    /\ task' = [task EXCEPT ![t] = [@ EXCEPT !.pc = "addref", !.h = h2,
                                               !.tmp = conn.crefs]]
    /\ UNCHANGED <<io, others, conn, notif, work, fds, last, nextid, hist>>

(* crefs++: the value written is one more than the value the assertion     *)
(* read, or than a value read again (reload), as the compiler chose.       *)
AddrefFinish(t, reload) ==
    /\ task[t].pc = "addref"
    /\ conn' = [conn EXCEPT !.crefs =
                   AddrefInc(IF reload THEN conn.crefs ELSE task[t].tmp)]
    /\ uaf' = IF conn.alloc THEN uaf ELSE uaf \cup {"addref"}
    /\ task' = [task EXCEPT ![t] = IdleTask]
    /\ UNCHANGED <<io, sock, others, notif, work, fds, last, nextid, deq, got, lost,
                   frees, early>>

(* The test crefs <= 1 of netlink_close on handle h.  Calls of other tasks *)
(* on h may be in progress; h is closed by one task.                       *)
CloseStart(t, h) ==
    /\ task[t].pc = "idle"
    /\ sock[h].conn
    /\ conn.alloc
    /\ \A u \in Tasks : task[u].pc \in {"close", "addref"} => task[u].h # h
    /\ task' = [task EXCEPT ![t] = [@ EXCEPT !.pc = "close", !.h = h,
                                               !.tmp = conn.crefs]]
    /\ UNCHANGED <<io, sock, others, conn, notif, work, fds, last, nextid, hist>>

(* The branch the test chose: crefs = 0 and netlink_free, or crefs--.      *)
CloseFinish(t, reload) ==
    /\ task[t].pc = "close"
    /\ IF CloseIsLast(task[t].tmp)
       THEN /\ conn' = netlink_free([conn EXCEPT !.crefs = 0])
            /\ lost' = lost \cup Ids(conn.resplist)
            /\ frees' = frees + 1
            /\ early' = (early \/ LiveCount > 1)
       ELSE /\ conn' = [conn EXCEPT !.crefs =
                           CloseDec(IF reload THEN conn.crefs ELSE task[t].tmp)]
            /\ UNCHANGED <<lost, frees, early>>
    /\ uaf' = IF conn.alloc THEN uaf ELSE uaf \cup {"close"}
    /\ sock' = [sock EXCEPT ![task[t].h] = ClosedSock]
    /\ task' = [task EXCEPT ![t] = IdleTask]
    /\ UNCHANGED <<io, others, notif, work, fds, last, nextid, deq, got>>

(* SpecRace: the calls of two tasks interleaved at the statements that run *)
(* outside the network lock.                                               *)
NextRace ==
    \/ \E h \in Handles, pr \in Protocols, ty \in SockTypes, mem \in BOOLEAN :
          Setup(h, pr, ty, FALSE, mem)
    \/ \E t \in Tasks, h, h2 \in Handles : AddrefStart(t, h, h2)
    \/ \E t \in Tasks, reload \in BOOLEAN : AddrefFinish(t, reload)
    \/ \E t \in Tasks, h \in Handles : CloseStart(t, h)
    \/ \E t \in Tasks, reload \in BOOLEAN : CloseFinish(t, reload)
    \/ \E h \in Handles : Enqueue(h, 4)
    \/ \E t \in Tasks, h \in Handles, len \in BufLens : RecvTry(t, h, len, FALSE)
    \/ \E t \in Tasks, garbage \in BOOLEAN : RecvWake(t, garbage)
    \/ \E t \in Tasks : RecvCopy(t)

SpecRace == Init /\ [][NextRace]_vars

(* The statements of netlink_response_available and of netlink_poll that   *)
(* take and give the locks, one step each.  The work queue thread runs     *)
(* whenever it is ready; a task runs while that thread has not locked the  *)
(* scheduler, or has and is waiting for the network lock.                  *)
data == <<sock, others, conn, notif, work, fds, task, last, nextid, hist,
          addr, bound, linked, sent>>

CallbackWaits == cbpc = "net_lock" /\ netlock # "free"

TaskRuns == lockcount = 0 \/ CallbackWaits

(* sched_lock()                                                            *)
CbSchedLock ==
    /\ cbpc = "idle"
    /\ work > 0
    /\ lockcount' = lockcount + 1
    /\ cbpc' = "net_lock"
    /\ UNCHANGED <<data, netlock, tdpc>>

(* net_lock(): the thread waits while another holds the lock.              *)
CbNetLock ==
    /\ cbpc = "net_lock"
    /\ netlock = "free"
    /\ netlock' = "worker"
    /\ cbpc' = "body"
    /\ UNCHANGED <<data, lockcount, tdpc>>

(* The test, the post and the two assignments.                             *)
CbBody(stale) ==
    /\ cbpc = "body"
    /\ ResponseAvailableBody(stale)
    /\ cbpc' = "net_unlock"
    /\ UNCHANGED <<sock, others, notif, task, last, nextid, deq, got, lost, frees,
                   early, addr, bound, linked, sent, netlock, lockcount, tdpc>>

(* net_unlock()                                                            *)
CbNetUnlock ==
    /\ cbpc = "net_unlock"
    /\ netlock' = "free"
    /\ cbpc' = "sched_unlock"
    /\ UNCHANGED <<data, lockcount, tdpc>>

(* sched_unlock()                                                          *)
CbSchedUnlock ==
    /\ cbpc = "sched_unlock"
    /\ lockcount' = lockcount - 1
    /\ cbpc' = "idle"
    /\ UNCHANGED <<data, netlock, tdpc>>

(* netlink_poll(setup = true): net_lock()                                  *)
PollLock ==
    /\ TaskRuns
    /\ netlock = "free"
    /\ conn.alloc
    /\ netlock' = "poll"
    /\ UNCHANGED <<data, lockcount, cbpc, tdpc>>

(* ... and the rest of the call, to the net_unlock() of the path taken.    *)
PollLocked(p, h, events, nret) ==
    /\ TaskRuns
    /\ netlock = "poll"
    /\ PollSetupBody(p, h, events, nret)
    /\ netlock' = "free"
    /\ UNCHANGED <<sock, others, work, task, nextid, hist, addr, bound, linked, sent,
                   lockcount, cbpc, tdpc>>

(* netlink_poll(setup = false) takes no lock:                              *)
(* netlink_notifier_teardown(conn),                                        *)
UnpollCancel(h) ==
    /\ TaskRuns
    /\ tdpc = "idle"
    /\ sock[h].conn
    /\ conn.alloc
    /\ notif' = FALSE
    /\ tdpc' = "pollsem"
    /\ UNCHANGED <<sock, others, conn, work, fds, task, last, nextid, hist,
                   addr, bound, linked, sent, netlock, lockcount, cbpc>>

(* conn->pollsem = NULL,                                                   *)
UnpollSem ==
    /\ TaskRuns
    /\ tdpc = "pollsem"
    /\ conn' = [conn EXCEPT !.pollsem = NULL]
    /\ tdpc' = "pollevent"
    /\ UNCHANGED <<sock, others, notif, work, fds, task, last, nextid, hist,
                   addr, bound, linked, sent, netlock, lockcount, cbpc>>

(* conn->pollevent = NULL and the return.                                  *)
UnpollEvent ==
    /\ TaskRuns
    /\ tdpc = "pollevent"
    /\ conn' = [conn EXCEPT !.pollevent = NULL]
    /\ tdpc' = "idle"
    /\ last' = Returned("unpoll", OK)
    /\ UNCHANGED <<sock, others, notif, work, fds, task, nextid, hist,
                   addr, bound, linked, sent, netlock, lockcount, cbpc>>

(* A dup by a task that runs.                                              *)
TaskDup(h, h2) == TaskRuns /\ Dup(h, h2, FALSE)

(* netlink_add_response by a task that runs, under the network lock.       *)
LockedEnqueue(h, len) == TaskRuns /\ netlock = "free" /\ Enqueue(h, len)

(* SpecLock: on a connection that stays open, polls, teardowns and the     *)
(* callback at the statements that take and give the locks; the backends   *)
(* enqueue under the network lock.                                         *)
NextLock ==
    \/ \E h \in Handles, pr \in Protocols, ty \in SockTypes, mem \in BOOLEAN :
          Setup(h, pr, ty, FALSE, mem)
    \/ \E h, h2 \in Handles : TaskDup(h, h2)
    \/ \E h \in Handles : LockedEnqueue(h, 4)
    \/ PollLock
    \/ \E p \in PollFds, h \in Handles, ev \in EventSets, nret \in {OK, -ENOMEM} :
          PollLocked(p, h, ev, nret)
    \/ \E h \in Handles : UnpollCancel(h)
    \/ UnpollSem
    \/ UnpollEvent
    \/ CbSchedLock
    \/ CbNetLock
    \/ \E stale \in BOOLEAN : CbBody(stale)
    \/ CbNetUnlock
    \/ CbSchedUnlock

SpecLock == Init /\ [][NextLock]_vars

(* SpecOps: the address calls and the calls that only return a code, on   *)
(* every handle of the connection and from every task.                     *)
NextOps ==
    \/ \E h \in Handles, pr \in Protocols, dom \in Domains, ty \in SockTypes,
          mem \in BOOLEAN : SetupIn(h, pr, dom, ty, FALSE, mem)
    \/ \E h, h2 \in Handles : Dup(h, h2, FALSE)
    \/ \E h \in Handles : Close(h)
    \/ \E h \in Handles : Enqueue(h, 4)
    \/ \E h \in Handles : PollSetup(1, h, {"POLLIN"}, OK)
    \/ \E h \in Handles, backlog \in Backlogs : Listen(h, backlog)
    \/ \E h, newsock \in Handles : Accept(h, newsock)
    \/ \E t \in Tasks, h \in Handles, pid \in NlPids, groups \in NlGroups :
          Bind(t, h, pid, groups)
    \/ \E t \in Tasks, h \in Handles : GetSockName(t, h)

SpecOps == Init /\ [][NextOps]_vars

(* SpecPeer: the peer address calls with the local address calls, on      *)
(* every handle of the connection and from every task.                     *)
NextPeer ==
    \/ \E h \in Handles, pr \in Protocols, ty \in SockTypes, mem \in BOOLEAN :
          Setup(h, pr, ty, FALSE, mem)
    \/ \E h, h2 \in Handles : Dup(h, h2, FALSE)
    \/ \E h \in Handles : Close(h)
    \/ \E t \in Tasks, h \in Handles, pid \in NlPids : Bind(t, h, pid, 0)
    \/ \E t \in Tasks, h \in Handles : GetSockName(t, h)
    \/ \E t \in Tasks, h \in Handles, pid \in NlPids, groups \in NlGroups,
          pad \in NlPads : Connect(t, h, pid, groups, pad)
    \/ \E t \in Tasks, h \in Handles : GetPeerName(t, h)

SpecPeer == Init /\ [][NextPeer]_vars

(* SpecSend: the send side on every handle of a connection whose peer and  *)
(* local address change between the sends.                                 *)
NextSend ==
    \/ \E h \in Handles, pr \in Protocols, ty \in SockTypes, mem \in BOOLEAN :
          Setup(h, pr, ty, FALSE, mem)
    \/ \E h, h2 \in Handles : Dup(h, h2, FALSE)
    \/ \E h \in Handles : Close(h)
    \/ \E h \in Handles : Bind(1, h, 1, 3)
    \/ \E h \in Handles, pid \in NlPids, groups \in NlGroups :
          Connect(1, h, pid, groups, 0)
    \/ \E t \in Tasks, h \in Handles, len \in SendLens :
          \E bret \in BackendResults(len) : Send(t, h, len, bret)
    \/ \E t \in Tasks, h \in Handles, len \in SendLens, pid \in NlPids,
          groups \in NlGroups :
          \E bret \in BackendResults(len) : SendTo(t, h, len, Dest(pid, groups), bret)

SpecSend == Init /\ [][NextSend]_vars

(* SpecCalls: every call of the table that acts on a connection, and the  *)
(* callback, issued by task 1 on every handle.                             *)
NextCalls ==
    \/ Lifetime({FALSE}, {4})
    \/ \E h \in Handles : Bind(1, h, 0, 3)
    \/ \E h \in Handles : Connect(1, h, 1, 3, 0)
    \/ \E h \in Handles, bret \in BackendResults(16) : Send(1, h, 16, bret)
    \/ \E h \in Handles : SendTo(1, h, 16, Dest(1, 0), -ENOMEM)
    \/ \E h \in Handles, len \in BufLens : RecvTry(1, h, len, TRUE)
    \/ RecvCopy(1)
    \/ \E h \in Handles : PollSetup(1, h, {"POLLIN"}, OK)
    \/ PollTeardown(1)
    \/ \E stale \in BOOLEAN : ResponseAvailable(stale)

SpecCalls == Init /\ [][NextCalls]_vars

(* ------------------------------ claims --------------------------------- *)

(* C1: from setup on, whatever sequence of netlink_addref and              *)
(* netlink_close calls is made, the connection is freed at most once, it   *)
(* is freed by the close that releases the last handle (no handle left     *)
(* means freed) and by no earlier close (freed means no handle left).      *)
C1_DestroyedOnceAtZero ==
    /\ frees <= 1
    /\ ~early
    /\ (frees = 1) = (~conn.alloc /\ last.op = "setup" /\ last.ret = OK)
    /\ (last.op = "setup" /\ last.ret = OK) => (conn.alloc = (LiveCount > 0))

(* C1 witness: the connection has been freed, by the close of the last of  *)
(* its handles.                                                            *)
C1_Witness == frees = 1 /\ ~conn.alloc /\ LiveCount = 0 /\ conn.crefs = 0

(* C10 as stated: the count stays below 255 in every reachable state.      *)
C10_BelowLimit == conn.crefs < CREFS_LIMIT

(* C10 amended: the count lies in [0, 255]; while the connection is        *)
(* allocated it is at least 1 and equals the number of handles, so no      *)
(* netlink_addref that satisfies its assertion starts from 0 or wraps.     *)
C10_NoWrap ==
    /\ conn.crefs \in 0 .. CREFS_LIMIT
    /\ conn.alloc => (conn.crefs >= 1 /\ conn.crefs = LiveCount)

(* C10 witness: 255 handles share the connection.                          *)
C10_Witness == conn.alloc /\ conn.crefs = CREFS_LIMIT /\ LiveCount = CREFS_LIMIT

(* C2: responses leave the queue in the order they were enqueued (the      *)
(* identifiers count the enqueues; only a response freed unread by the     *)
(* final close is skipped), and a receive that finds the queue empty       *)
(* returns -EAGAIN and changes nothing when the socket is non-blocking or  *)
(* MSG_DONTWAIT is given, and otherwise suspends the caller.               *)
FifoOrder ==
    /\ \A i, j \in 1 .. Len(deq) : i < j => deq[i] < deq[j]
    /\ \A i, j \in 1 .. Len(conn.resplist) :
          i < j => conn.resplist[i].id < conn.resplist[j].id
    /\ \A i \in 1 .. Len(deq), j \in 1 .. Len(conn.resplist) :
          deq[i] < conn.resplist[j].id
    /\ Range(deq) \cup Ids(conn.resplist) \cup lost = 1 .. (nextid - 1)

(* A receive call that is alone in holding a response, after calls that    *)
(* returned in queue order, returns the next response of that order.       *)
SequentialReturn ==
    \A t \in Tasks :
        (RecvCopy(t) /\ Len(deq) = Len(got) + 1 /\ got = SubSeq(deq, 1, Len(got)))
            => got' = deq

RecvOnEmpty ==
    \A t \in Tasks, h \in Handles, len \in BufLens, dw \in BOOLEAN :
        (RecvTry(t, h, len, dw) /\ conn.resplist = <<>>) =>
            IF sock[h].nonblock \/ dw
            THEN last' = Returned("recv", -EAGAIN) /\ task' = task /\ conn' = conn
            ELSE task'[t].pc = "wait" /\ last' = last /\ conn' = conn

C2_FifoThenWouldBlock ==
    [](FifoOrder) /\ [][SequentialReturn]_vars /\ [][RecvOnEmpty]_vars

(* C2 witness: every response that was enqueued has been returned, in      *)
(* order, and the receive after them returned -EAGAIN.                     *)
C2_Witness ==
    /\ Len(got) >= 2
    /\ got = [i \in 1 .. Len(got) |-> i]
    /\ nextid = Len(got) + 1
    /\ conn.resplist = <<>>
    /\ last = Returned("recv", -EAGAIN)

(* C8: a response is dequeued once and returned once: no identifier is     *)
(* dequeued or returned twice, a dequeued response is no longer queued,    *)
(* each dequeued response is either already returned or in the hands of    *)
(* exactly one receive call, and only enqueued responses are returned.     *)
Holders(id) == {t \in Tasks : task[t].pc = "copy" /\ task[t].entry.id = id}

C8_ConsumedExactlyOnce ==
    /\ Cardinality(Range(deq)) = Len(deq)
    /\ Cardinality(Range(got)) = Len(got)
    /\ Range(got) \subseteq Range(deq)
    /\ Range(deq) \subseteq 1 .. (nextid - 1)
    /\ Range(deq) \cap Ids(conn.resplist) = {}
    /\ \A id \in Range(deq) :
          Cardinality(Holders(id)) = (IF id \in Range(got) THEN 0 ELSE 1)
    /\ \A t \in Tasks : task[t].pc = "copy" => task[t].entry.id \in Range(deq)

(* C8 witness: two receive calls, on two handles of the connection, each   *)
(* hold a response at the same time.                                       *)
C8_Witness ==
    /\ \A t \in {1, 2} : task[t].pc = "copy"
    /\ task[1].h # task[2].h
    /\ task[1].entry.id # task[2].entry.id

(* C3: while a registration is outstanding (recorded by a poll setup that *)
(* found no event, not yet cleared by a poll teardown or by the callback)  *)
(* it belongs to a pollfd that is set up and has not been woken, and a     *)
(* further setup that asks for POLLIN and finds nothing queued returns     *)
(* -EBUSY and changes nothing; a poll teardown leaves no registration, and *)
(* without one the same setup records the caller and returns success when  *)
(* the bridge accepts the subscription.                                    *)
Outstanding == conn.pollsem # NULL \/ conn.pollevent # NULL

RegistrationOwner ==
    (conn.alloc /\ Outstanding) =>
        /\ conn.pollsem = conn.pollevent
        /\ fds[conn.pollsem].active
        /\ fds[conn.pollsem].sem = 0
        /\ fds[conn.pollsem].revents = {}

SecondSetupBusy ==
    \A p \in PollFds, h \in Handles, nret \in {OK, -ENOMEM} :
        (PollSetup(p, h, {"POLLIN"}, nret) /\ Outstanding /\ conn.resplist = <<>>)
            => /\ last' = Returned("poll", -EBUSY)
               /\ conn' = conn /\ fds' = fds /\ notif' = notif

SetupAfterTeardown ==
    /\ \A p \in PollFds : PollTeardown(p) => (~Outstanding' /\ ~notif')
    /\ \A p \in PollFds, h \in Handles :
          (PollSetup(p, h, {"POLLIN"}, OK) /\ ~Outstanding /\ conn.resplist = <<>>)
              => /\ last' = Returned("poll", OK)
                 /\ conn'.pollsem = p /\ conn'.pollevent = p /\ notif'

C3_OneRegistration ==
    [](RegistrationOwner) /\ [][SecondSetupBusy]_vars /\ [][SetupAfterTeardown]_vars

(* C3 witness: one pollfd holds the registration and the setup of another  *)
(* has just been refused with -EBUSY.                                      *)
C3_Witness ==
    /\ conn.alloc /\ conn.pollsem # NULL
    /\ last = Returned("poll", -EBUSY)
    /\ \E p \in PollFds : ~fds[p].active

(* C5 as stated: once the final close has run, the bridge holds no         *)
(* subscription for the connection and its queue is empty; a close that    *)
(* leaves other references takes exactly one and leaves registration,      *)
(* subscription and queue as they were.                                    *)
FinalCloseTearsDown == frees > 0 => (~notif /\ conn.resplist = <<>>)

OtherCloseKeeps ==
    \A h \in Handles :
        (Close(h) /\ ~CloseIsLast(conn.crefs)) =>
            /\ conn' = [conn EXCEPT !.crefs = conn.crefs - 1]
            /\ notif' = notif

C5_CloseTearsDownAtZero == [](FinalCloseTearsDown) /\ [][OtherCloseKeeps]_vars

(* C6 as stated: the callback never runs on a record that netlink_close    *)
(* has returned to the pool, and so never posts a semaphore or writes an   *)
(* event word that was registered before the close.                        *)
C6_NoCallbackAfterFree == uaf \cap {"callback", "post"} = {}

(* C4: a blocking receive returns only with a response (never -EAGAIN,    *)
(* never before anything was enqueued); the wait ends only on a non-empty  *)
(* queue, by taking its head; and, under the scheduler's fairness, a       *)
(* receiver suspended while response n heads the queue returns response n. *)
BlockingReturnsResponse ==
    last.op = "recv" =>
        /\ last.ret > 0
        /\ got # <<>>
        /\ Range(got) \subseteq 1 .. (nextid - 1)

WakeTakesHead ==
    (task[1].pc = "wait" /\ task'[1].pc # "wait") =>
        /\ conn.resplist # <<>>
        /\ task'[1].pc = "copy"
        /\ task'[1].entry = Head(conn.resplist)
        /\ conn'.resplist = Tail(conn.resplist)

BlockedOn(n) ==
    /\ task[1].pc = "wait"
    /\ conn.resplist # <<>>
    /\ Head(conn.resplist).id = n

Delivered(n) ==
    /\ task[1].pc = "idle"
    /\ last.op = "recv" /\ last.ret > 0
    /\ got # <<>> /\ got[Len(got)] = n

C4_BlockedReceiveDelivers ==
    /\ [](BlockingReturnsResponse)
    /\ [][WakeTakesHead]_vars
    /\ \A n \in 1 .. MaxMsgs : BlockedOn(n) ~> Delivered(n)

(* C4 witness: the receiver is suspended and a response enqueued since     *)
(* heads the queue.                                                        *)
C4_Witness == \E n \in 1 .. MaxMsgs : BlockedOn(n) /\ task[1].wsem = 1

(* C7 as stated: a receiver never reads the queue of a connection that     *)
(* netlink_close has freed.                                                *)
C7_NoReceiveAfterFree == "recv" \notin uaf

(* C9 as stated: no interleaving of netlink_close with netlink_addref or   *)
(* with another netlink_close frees the connection while a handle is still *)
(* attached to it, frees it twice, or writes the count of a freed record.  *)
C9_NoRacingFree ==
    /\ ~early
    /\ frees <= 1
    /\ uaf \cap {"addref", "close"} = {}

(* C11: the local address of the connection is what the last netlink_bind *)
(* asked for, with nl_pid 0 replaced by the pid of the task that called    *)
(* it, whatever was bound before; a netlink_getsockname that follows       *)
(* returns exactly that address (zeroes when nothing was ever bound); and  *)
(* a bind that repeats the last one leaves the connection as it is.        *)
WantedPid == IF bound.pid = 0 THEN bound.caller ELSE bound.pid

LocalIsLastBind ==
    conn.alloc =>
        IF bound.set
        THEN conn.pid = WantedPid /\ conn.groups = bound.groups
        ELSE conn.pid = 0 /\ conn.groups = 0

GetLocalReturnsBind ==
    last.op = "getsockname" =>
        /\ last.ret = OK
        /\ addr.family = "AF_NETLINK"
        /\ IF bound.set
           THEN addr.pid = WantedPid /\ addr.groups = bound.groups
           ELSE addr.pid = 0 /\ addr.groups = 0

RepeatedBind ==
    \A t \in Tasks, h \in Handles, pid \in NlPids, groups \in NlGroups :
        (/\ Bind(t, h, pid, groups)
         /\ bound = [set |-> TRUE, pid |-> pid, groups |-> groups, caller |-> t])
            => conn' = conn

ReturnsMinLength ==
    \A t \in Tasks :
        RecvCopy(t) =>
            /\ last' = Returned("recv",
                          IF task[t].len < task[t].entry.len
                          THEN task[t].len ELSE task[t].entry.len)
            /\ conn' = conn
            /\ task'[t].pc = "idle" /\ task'[t].entry = NoEntry
            /\ got' = Append(got, task[t].entry.id)

NoRedelivery ==
    /\ \A i, j \in 1 .. Len(got) : i # j => got[i] # got[j]
    /\ Range(got) \cap Ids(conn.resplist) = {}
    /\ \A t \in Tasks : task[t].pc = "copy" => task[t].entry.id \notin Range(got)

C12_TruncatingReceive == [][ReturnsMinLength]_vars /\ [](NoRedelivery)

(* C12 witness: response 1, longer than the buffer, was returned cut to    *)
(* the buffer length and response 2 now heads the queue.                   *)
C12_Witness ==
    /\ got = <<1>>
    /\ last.op = "recv" /\ last.ret \in BufLens /\ last.ret < 4
    /\ conn.resplist # <<>> /\ Head(conn.resplist).id = 2
    /\ \A t \in Tasks : task[t].pc = "idle"

(* C13: netlink_recvfrom on an empty queue, with the handle non-blocking   *)
(* or MSG_DONTWAIT given, returns -EAGAIN, leaves the caller running (no   *)
(* task is suspended or holds anything) and changes nothing of the         *)
(* connection, its handles, its registration or its subscription.          *)
WouldBlockFrame ==
    \A t \in Tasks, h \in Handles, len \in BufLens, dw \in BOOLEAN :
        (/\ RecvTry(t, h, len, dw)
         /\ conn.resplist = <<>>
         /\ (sock[h].nonblock \/ dw))
            => /\ last' = Returned("recv", -EAGAIN)
               /\ task' = task
               /\ UNCHANGED <<conn, sock, others, notif, work, fds, hist, io>>

WritableAtOnce ==
    \A p \in PollFds, h \in Handles, ev \in EventSets, nret \in {OK, -ENOMEM} :
        (PollSetup(p, h, ev, nret) /\ "POLLOUT" \in ev)
            => /\ "POLLOUT" \in fds'[p].revents
               /\ fds'[p].revents \subseteq ev
               /\ fds'[p].sem = fds[p].sem + 1
               /\ last' = Returned("poll", OK)
               /\ conn' = conn /\ notif' = notif

C14_PollOutImmediate == [][WritableAtOnce]_vars

(* C14 witness: POLLOUT was reported to one caller while the registration  *)
(* of another is outstanding and the queue is empty.                       *)
C14_Witness ==
    /\ last = Returned("poll", OK)
    /\ conn.alloc /\ conn.pollsem # NULL /\ conn.resplist = <<>>
    /\ \E p \in PollFds :
          /\ p # conn.pollsem
          /\ fds[p].active /\ fds[p].revents = {"POLLOUT"} /\ fds[p].sem = 1

(* C15: a poll setup whose events include POLLIN, made while a response is *)
(* queued, stores POLLIN in the caller's revents, posts the caller's       *)
(* semaphore, returns OK and records no registration; a poll setup made    *)
(* while the queue is empty never stores POLLIN.                           *)
ReadableAtOnce ==
    \A p \in PollFds, h \in Handles, ev \in EventSets, nret \in {OK, -ENOMEM} :
        PollSetup(p, h, ev, nret) =>
            IF conn.resplist # <<>>
            THEN "POLLIN" \in ev =>
                    /\ "POLLIN" \in fds'[p].revents
                    /\ fds'[p].sem = fds[p].sem + 1
                    /\ last' = Returned("poll", OK)
                    /\ conn' = conn /\ notif' = notif
            ELSE "POLLIN" \notin fds'[p].revents

C15_PollInWhenQueued == [][ReadableAtOnce]_vars

(* C15 witness: POLLIN and POLLOUT were both reported at once, on a queue  *)
(* that holds a response, and nothing is registered.                       *)
C15_Witness ==
    /\ last = Returned("poll", OK)
    /\ conn.alloc /\ conn.pollsem = NULL /\ conn.pollevent = NULL
    /\ conn.resplist # <<>>
    /\ \E p \in PollFds :
          fds[p].active /\ fds[p].revents = {"POLLIN", "POLLOUT"} /\ fds[p].sem = 1

(* C16: a poll setup that asks for POLLIN only, finds the queue empty and  *)
(* no registration, and whose subscription the bridge accepts, records the *)
(* caller's semaphore and event word as the registration, subscribes, and  *)
(* returns OK with no event stored and the semaphore not posted; once a    *)
(* response has been enqueued on the registered connection the semaphore   *)
(* is eventually posted with POLLIN stored, unless the poller tears its    *)
(* poll down or the connection is freed first.                             *)
RegistersCaller ==
    \A h \in Handles :
        (PollSetup(1, h, {"POLLIN"}, OK) /\ conn.resplist = <<>> /\ ~Outstanding)
            => /\ conn'.pollsem = 1 /\ conn'.pollevent = 1
               /\ notif'
               /\ fds'[1].active /\ fds'[1].revents = {} /\ fds'[1].sem = 0
               /\ last' = Returned("poll", OK)

Registered == conn.alloc /\ fds[1].active /\ conn.pollsem = 1 /\ conn.pollevent = 1

Fulfilled == fds[1].active /\ fds[1].sem = 1 /\ "POLLIN" \in fds[1].revents

C16_RegistrationFulfilled ==
    /\ [][RegistersCaller]_vars
    /\ (Registered /\ conn.resplist # <<>>)
          ~> (Fulfilled \/ ~fds[1].active \/ frees > 0)

(* C16 witness: a response was enqueued on the connection that holds the   *)
(* registration of pollfd 1 and the callback is scheduled.                 *)
C16_Witness ==
    /\ Registered /\ conn.resplist # <<>>
    /\ work = 1 /\ ~notif
    /\ fds[1].sem = 0 /\ fds[1].revents = {}

(* C17: netlink_response_available on an allocated connection: with a     *)
(* registration outstanding it adds POLLIN to the registered event word    *)
(* and posts the registered semaphore once, touching no other pollfd;      *)
(* with none it posts nothing and writes no event word; either way the     *)
(* connection has no registration afterwards and is otherwise unchanged.   *)
(* No semaphore is ever posted twice for one poll setup.                   *)
SingleShot ==
    \A stale \in BOOLEAN :
        (ResponseAvailable(stale) /\ conn.alloc) =>
            /\ IF conn.pollsem # NULL /\ conn.pollevent # NULL
               THEN fds' = [fds EXCEPT
                              ![conn.pollevent].revents = @ \cup {"POLLIN"},
                              ![conn.pollsem].sem = @ + 1]
               ELSE fds' = fds
            /\ conn' = [conn EXCEPT !.pollsem = NULL, !.pollevent = NULL]
            /\ UNCHANGED <<sock, others, task, last, hist, io>>

PostedOnce == \A p \in PollFds : fds[p].sem <= 1

C17_CallbackSingleShot == [][SingleShot]_vars /\ [](PostedOnce)

(* C17 witness: the registered semaphore was posted once with POLLIN for   *)
(* the one response enqueued, and nothing is registered any more.          *)
C17_Witness ==
    /\ conn.alloc /\ ~Outstanding /\ ~notif /\ work = 0
    /\ nextid = 2 /\ Len(conn.resplist) = 1
    /\ \E p \in PollFds :
          /\ fds[p].active /\ fds[p].sem = 1 /\ fds[p].revents = {"POLLIN"}
          /\ \A q \in PollFds \ {p} : ~fds[q].active

(* C18: netlink_poll(setup = false) leaves the connection with no         *)
(* registration and the bridge with no subscription and changes nothing    *)
(* else (queue, count, addresses, handles, pollfds); called when nothing   *)
(* is registered or subscribed, as a second call in a row is, it changes   *)
(* nothing at all.                                                         *)
UnpollCancels ==
    \A h \in Handles :
        Unpoll(h) =>
            /\ conn' = [conn EXCEPT !.pollsem = NULL, !.pollevent = NULL]
            /\ ~notif'
            /\ UNCHANGED <<sock, others, work, fds, task, nextid, hist, io>>

UnpollIdempotent ==
    \A h \in Handles :
        (Unpoll(h) /\ ~Outstanding /\ ~notif) =>
            UNCHANGED <<conn, notif, sock, others, work, fds, task, nextid, hist, io>>

UnpollTwice ==
    \A h \in Handles :
        (Unpoll(h) /\ last = Returned("unpoll", OK)) =>
            UNCHANGED <<conn, notif, sock, others, work, fds, task, nextid, hist, io>>

C18_UnregisterIdempotent ==
    [][UnpollCancels]_vars /\ [][UnpollIdempotent]_vars /\ [][UnpollTwice]_vars

(* C18 witness: a teardown has cancelled the registration of a pollfd that *)
(* was set up for POLLIN and is still waiting.                             *)
C18_Witness ==
    /\ last = Returned("unpoll", OK)
    /\ conn.alloc /\ ~Outstanding /\ ~notif /\ work = 0
    /\ conn.resplist = <<>> /\ nextid = 1
    /\ \E p \in PollFds : fds[p].active /\ fds[p].sem = 0 /\ fds[p].revents = {}
    /\ \A p \in PollFds : fds[p].active => fds[p].sem = 0

(* C19: netlink_listen and netlink_accept return -EOPNOTSUPP in whatever   *)
(* state the connection is (bound or not, shared or not, with or without   *)
(* queued responses or a registration) and change nothing: connection,     *)
(* handles, new socket, pollfds and subscription stay as they were.        *)
ListenAcceptFrame ==
    /\ \A h \in Handles, backlog \in Backlogs :
          Listen(h, backlog) =>
              /\ last' = Returned("listen", -EOPNOTSUPP)
              /\ UNCHANGED <<conn, sock, others, notif, work, fds, task, hist, io>>
    /\ \A h, newsock \in Handles :
          Accept(h, newsock) =>
              /\ last' = Returned("accept", -EOPNOTSUPP)
              /\ UNCHANGED <<conn, sock, others, notif, work, fds, task, hist, io>>

C19_ListenAcceptUnsupported ==
    /\ [][ListenAcceptFrame]_vars
    /\ [](last.op \in {"listen", "accept"} => last.ret = -EOPNOTSUPP)

(* C19 witness: accept was refused on a bound connection that holds a      *)
(* registration.                                                           *)
C19_Witness ==
    /\ last = Returned("accept", -EOPNOTSUPP)
    /\ conn.alloc /\ bound.set /\ Outstanding /\ conn.crefs = 1

(* C20: netlink_setup returns OK exactly for protocol NETLINK_ROUTE on a    *)
(* PF_NETLINK socket of type SOCK_DGRAM or SOCK_RAW when netlink_alloc     *)
(* gives a record, and then the handle holds a zeroed connection with the  *)
(* protocol stored and a count of 1; it returns -EPROTONOSUPPORT for any   *)
(* other protocol, type or domain, -ENOMEM when the supported request      *)
(* finds no record, and on every failure allocates and attaches nothing.   *)
SetupOutcome ==
    \A h \in Handles, pr \in Protocols, dom \in Domains, ty \in SockTypes,
       nb \in BOOLEAN, mem \in BOOLEAN :
        SetupIn(h, pr, dom, ty, nb, mem) =>
            LET supported == /\ pr = NETLINK_ROUTE
                             /\ dom = "PF_NETLINK"
                             /\ ty \in {"SOCK_DGRAM", "SOCK_RAW"}
            IN  IF supported /\ mem
                THEN /\ last' = Returned("setup", OK)
                     /\ conn' = [ZeroConn EXCEPT !.alloc = TRUE,
                                                 !.protocol = pr, !.crefs = 1]
                     /\ sock'[h].conn
                     /\ \A h2 \in Handles \ {h} : sock'[h2] = sock[h2]
                ELSE /\ last' = Returned("setup",
                          IF supported THEN -ENOMEM ELSE -EPROTONOSUPPORT)
                     /\ conn' = conn /\ sock' = sock

SetupFailureAttachesNothing ==
    (last.op = "setup" /\ last.ret # OK) => (~conn.alloc /\ LiveCount = 0)

C20_SetupValidates == [][SetupOutcome]_vars /\ [](SetupFailureAttachesNothing)

(* C20 witness: a supported request has just attached a fresh connection.  *)
C20_Witness ==
    /\ last = Returned("setup", OK)
    /\ conn = [ZeroConn EXCEPT !.alloc = TRUE, !.protocol = NETLINK_ROUTE,
                               !.crefs = 1]
    /\ LiveCount = 1

(* C21: netlink_connect returns OK in whatever state the connection is,   *)
(* stores the peer's pid and groups and does nothing else (nothing is      *)
(* queued, sent, scheduled or waited for); the peer address of the         *)
(* connection is what the last connect gave (zeroes before any); and a     *)
(* netlink_getpeername returns exactly that address, with zero padding     *)
(* whatever the caller's structure held.                                   *)
ConnectStoresPeer ==
    \A t \in Tasks, h \in Handles, pid \in NlPids, groups \in NlGroups,
       pad \in NlPads :
        Connect(t, h, pid, groups, pad) =>
            /\ last' = Returned("connect", OK)
            /\ conn' = [conn EXCEPT !.dst_pid = pid, !.dst_groups = groups]
            /\ UNCHANGED <<sock, others, notif, work, fds, task, nextid, hist, sent>>

PeerIsLastConnect ==
    conn.alloc =>
        IF linked.set
        THEN conn.dst_pid = linked.pid /\ conn.dst_groups = linked.groups
        ELSE conn.dst_pid = 0 /\ conn.dst_groups = 0

GetPeerReturnsConnect ==
    last.op = "getpeername" =>
        /\ last.ret = OK
        /\ addr = [family |-> "AF_NETLINK", pad |-> 0,
                   pid |-> IF linked.set THEN linked.pid ELSE 0,
                   groups |-> IF linked.set THEN linked.groups ELSE 0]

C21_ConnectSetsPeer ==
    [][ConnectStoresPeer]_vars /\ [](PeerIsLastConnect) /\ [](GetPeerReturnsConnect)

(* C21 witness: on a bound connection a second connect, through a          *)
(* structure with a dirty padding, replaced the peer and                   *)
(* netlink_getpeername returned the new one.                               *)
C21_Witness ==
    /\ last = Returned("getpeername", OK)
    /\ bound.set /\ conn.pid = 2
    /\ linked.set /\ linked.pid = 1 /\ linked.groups = 3
    /\ addr = [family |-> "AF_NETLINK", pad |-> 0, pid |-> 1, groups |-> 3]
    /\ conn.crefs = 2

(* C22: netlink_send on a connection, for every message and every state  *)
(* of the connection, returns what netlink_sendto returns and does what    *)
(* it does when given the destination AF_NETLINK, zero padding, and the    *)
(* pid and groups of the latest connect (zeroes before any): the backend   *)
(* gets the same message and that destination, the caller gets the         *)
(* backend's result, nothing else changes, and the one call is possible    *)
(* exactly when the other is.                                              *)
PeerDest ==
    [family |-> "AF_NETLINK", pad |-> 0,
     pid |-> IF linked.set THEN linked.pid ELSE 0,
     groups |-> IF linked.set THEN linked.groups ELSE 0]

SendtoEffect(len, to, bret) ==
    /\ last'.ret = (IF conn.protocol = NETLINK_ROUTE THEN bret ELSE -EOPNOTSUPP)
    /\ sent' = (IF conn.protocol = NETLINK_ROUTE
                THEN [made |-> TRUE, len |-> len, to |-> to] ELSE sent)
    /\ UNCHANGED <<sock, others, conn, notif, work, fds, task, nextid, hist, addr,
                   bound, linked>>

SendIsSendtoPeer ==
    \A t \in Tasks, h \in Handles, len \in SendLens :
        \A bret \in BackendResults(len) :
            /\ Send(t, h, len, bret) => SendtoEffect(len, PeerDest, bret)
            /\ \A pid \in NlPids, groups \in NlGroups :
                  SendTo(t, h, len, Dest(pid, groups), bret)
                      => SendtoEffect(len, Dest(pid, groups), bret)

SendWhenSendto ==
    \A t \in Tasks, h \in Handles, len \in SendLens :
        \A bret \in BackendResults(len) :
            (ENABLED Send(t, h, len, bret))
                = (ENABLED SendTo(t, h, len, PeerDest, bret))

C22_SendIsSendtoPeer == [][SendIsSendtoPeer]_vars /\ [](SendWhenSendto)

(* C22 witness: after a second connect on a bound connection a send gave   *)
(* the backend the new peer, which is not the local address, and returned  *)
(* the length the backend returned.                                        *)
C22_Witness ==
    /\ last = Returned("send", 20)
    /\ bound.set /\ conn.pid = 1 /\ conn.groups = 3
    /\ linked.set /\ linked.pid = 0 /\ linked.groups = 0
    /\ sent = [made |-> TRUE, len |-> 20, to |-> Dest(0, 0)]
    /\ conn.crefs = 2

(* C23: counting from its poll setup, the semaphore of a pollfd is posted *)
(* at most once; a post comes either from the setup itself, which then     *)
(* registers nothing, or from the callback, which posts only the           *)
(* registration it finds and clears it, so a pollfd posted by the one is   *)
(* never posted by the other; a poll teardown leaves no registration and   *)
(* no subscription for a callback to post; no more callbacks are scheduled *)
(* than responses were enqueued and a callback posts at most one           *)
(* semaphore; and a registration that is pending when a response is queued *)
(* is posted unless a poll teardown cancels it first.  The connection     *)
(* stays open throughout.                                                  *)
PostedAtMostOnce == \A p \in PollFds : fds[p].sem <= 1

RegisteredNotPosted ==
    \A p \in PollFds :
        (conn.pollsem = p \/ conn.pollevent = p) => (fds[p].active /\ fds[p].sem = 0)

PostedBy(p) == fds'[p].sem = fds[p].sem + 1

PostSources ==
    /\ \A p \in PollFds : fds'[p].sem # fds[p].sem =>
          \/ /\ ~fds[p].active /\ fds'[p].active /\ PostedBy(p)
             /\ conn' = conn /\ notif' = notif /\ work' = work
             /\ conn.pollsem # p /\ conn.pollevent # p
          \/ /\ work' = work - 1 /\ PostedBy(p)
             /\ conn.pollsem = p /\ conn.pollevent = p
             /\ conn'.pollsem = NULL /\ conn'.pollevent = NULL
             /\ "POLLIN" \in fds'[p].revents
          \/ /\ fds[p].active /\ ~fds'[p].active
             /\ conn'.pollsem = NULL /\ conn'.pollevent = NULL /\ ~notif'
    /\ Cardinality({p \in PollFds : fds'[p].sem > fds[p].sem}) <= 1

TeardownCancels ==
    \A p \in PollFds :
        PollTeardown(p) => (conn'.pollsem = NULL /\ conn'.pollevent = NULL /\ ~notif')

RegistrationEnds ==
    \A p \in PollFds :
        (conn.pollsem = p /\ conn'.pollsem # p) =>
            \/ work' = work - 1 /\ PostedBy(p) /\ "POLLIN" \in fds'[p].revents
            \/ last' = Returned("unpoll", OK) /\ ~notif' /\ ~PostedBy(p)

PendingAt(p) == conn.pollsem = p /\ conn.resplist # <<>>

ResolvedAt(p) ==
    \/ fds[p].sem = 1 /\ "POLLIN" \in fds[p].revents
    \/ conn.pollsem # p /\ (~fds[p].active \/ fds[p].sem = 0)

C23_WakeupExactlyOnce ==
    /\ [](PostedAtMostOnce) /\ [](RegisteredNotPosted) /\ [](work <= nextid - 1)
    /\ [][PostSources]_vars /\ [][TeardownCancels]_vars /\ [][RegistrationEnds]_vars
    /\ \A p \in PollFds : PendingAt(p) ~> ResolvedAt(p)

(* C23 witness: one pollfd was posted by its setup, which asked for       *)
(* POLLOUT; the other holds the registration, a response has been enqueued *)
(* since and the callback is scheduled.                                    *)
C23_Witness ==
    /\ conn.alloc /\ conn.pollsem = 2 /\ conn.pollevent = 2
    /\ fds[2].active /\ fds[2].sem = 0 /\ fds[2].revents = {}
    /\ fds[1].active /\ fds[1].sem = 1 /\ fds[1].revents = {"POLLOUT"}
    /\ conn.resplist # <<>> /\ work = 1 /\ ~notif

(* C24: a poll setup that asks for POLLIN without POLLOUT, finds the      *)
(* queue empty and a registration outstanding returns -EBUSY; the          *)
(* registered semaphore and event word are afterwards the ones registered  *)
(* before, the subscription is as it was, and the pollfd of the rejected   *)
(* caller is untouched: its semaphore is not posted and its revents not    *)
(* written.                                                                *)
BusyKeepsFirst ==
    \A p \in PollFds, h \in Handles, nret \in {OK, -ENOMEM} :
        (/\ PollSetup(p, h, {"POLLIN"}, nret)
         /\ (conn.pollsem # NULL \/ conn.pollevent # NULL)
         /\ conn.resplist = <<>>)
            => /\ last' = Returned("poll", -EBUSY)
               /\ conn.pollsem # p /\ conn.pollevent # p
               /\ conn'.pollsem = conn.pollsem /\ conn'.pollevent = conn.pollevent
               /\ conn' = conn /\ notif' = notif
               /\ fds'[p].sem = fds[p].sem /\ fds'[p].revents = fds[p].revents
               /\ fds' = fds

C25_SchedLockNotAcrossWait ==
    lockcount > 0 =>
        /\ cbpc \in {"net_lock", "body", "net_unlock", "sched_unlock"}
        /\ ~(cbpc = "net_lock" /\ netlock # "free")

(* C30 as stated: whenever the network lock is free the registered         *)
(* semaphore and the registered event word are both null or both set.      *)
C30_PointersPaired ==
    netlock = "free" => ((conn.pollsem = NULL) = (conn.pollevent = NULL))

(* C26 as stated: on a connection that was connected and never bound the  *)
(* local pid is the pid of the task that called netlink_connect, and       *)
(* netlink_getsockname returns it.                                         *)
C26_ConnectSetsLocalPid ==
    /\ (conn.alloc /\ linked.set /\ ~bound.set) => conn.pid = linked.caller
    /\ (last.op = "getsockname" /\ linked.set /\ ~bound.set)
          => addr.pid = linked.caller

(* C27: the protocol of a connection is the one netlink_setup stored, a   *)
(* protocol it accepts (NETLINK_ROUTE); no call that leaves the connection *)
(* allocated (bind, connect, dup, poll setup and teardown, send, sendto,   *)
(* receive, the callback, a close that is not the last) changes it; and so *)
(* no send or sendto on a connection ends in the default branch of the     *)
(* switch on the protocol.                                                 *)
ProtocolAccepted == conn.alloc => conn.protocol = NETLINK_ROUTE

ProtocolKept == (conn.alloc /\ conn'.alloc) => conn'.protocol = conn.protocol

ProtocolStored ==
    \A h \in Handles, pr \in Protocols, ty \in SockTypes, mem \in BOOLEAN :
        (Setup(h, pr, ty, FALSE, mem) /\ conn'.alloc) => conn'.protocol = pr

SendDispatched == last.op \in {"send", "sendto"} => last.ret # -EOPNOTSUPP

C27_ProtocolFixed ==
    /\ [](ProtocolAccepted) /\ [](SendDispatched)
    /\ [][ProtocolKept]_vars /\ [][ProtocolStored]_vars

(* C27 witness: a connection that was bound, connected, duplicated, polled *)
(* and received from has just sent through its backend.                    *)
C27_Witness ==
    /\ conn.alloc /\ conn.protocol = NETLINK_ROUTE /\ conn.crefs = 2
    /\ bound.set /\ linked.set
    /\ got # <<>>
    /\ fds[1].active /\ fds[1].sem = 1
    /\ last = Returned("send", 16)

(* C28: a receive through handle h that finds the queue empty returns     *)
(* -EAGAIN without suspending the caller when h itself is non-blocking or  *)
(* MSG_DONTWAIT is given, and suspends the caller otherwise, whatever the  *)
(* mode of the other handles of the connection; and a change of the mode   *)
(* of one handle changes neither the connection nor another handle.        *)
OwnFlagDecides ==
    \A t \in Tasks, h \in Handles, len \in BufLens, dw \in BOOLEAN :
        (RecvTry(t, h, len, dw) /\ conn.resplist = <<>>) =>
            IF sock[h].nonblock \/ dw
            THEN last' = Returned("recv", -EAGAIN) /\ task' = task
            ELSE task'[t].pc = "wait" /\ task'[t].h = h /\ last' = last

FlagIsLocal ==
    \A h \in Handles, nb \in BOOLEAN :
        SetNonblock(h, nb) =>
            /\ sock'[h].nonblock = nb
            /\ \A h2 \in Handles \ {h} : sock'[h2] = sock[h2]
            /\ UNCHANGED <<conn, others, notif, work, fds, task, last, nextid, hist>>

FailureRollsBack ==
    \A p \in PollFds, h \in Handles :
        (/\ PollSetup(p, h, {"POLLIN"}, -ENOMEM)
         /\ conn.pollsem = NULL /\ conn.pollevent = NULL
         /\ conn.resplist = <<>>)
            => /\ last' = Returned("poll", -ENOMEM)
               /\ conn'.pollsem = NULL /\ conn'.pollevent = NULL
               /\ conn' = conn /\ notif' = notif
               /\ fds' = fds

NothingLeftByFailure ==
    last = Returned("poll", -ENOMEM) =>
        (conn.pollsem = NULL /\ conn.pollevent = NULL)

NextSetupNotBusy ==
    last = Returned("poll", -ENOMEM) => last' # Returned("poll", -EBUSY)

C29_FailedSetupRollsBack ==
    /\ [][FailureRollsBack]_vars /\ [](NothingLeftByFailure)
    /\ [][NextSetupNotBusy]_vars

(* C29 witness: the subscription of a poll setup on a shared connection    *)
(* has just failed: nothing is registered, subscribed, posted or set up.   *)
C29_Witness ==
    /\ last = Returned("poll", -ENOMEM)
    /\ conn.alloc /\ conn.crefs = 2 /\ conn.resplist = <<>>
    /\ conn.pollsem = NULL /\ conn.pollevent = NULL /\ ~notif /\ work = 0
    /\ \A p \in PollFds : fds[p] = IdleFd

(* C31: netlink_poll(setup = false) clears the registration of the         *)
(* connection whichever handle it is called on and whichever handle and    *)
(* pollfd made the registration: when a POLLIN registration made through   *)
(* one handle is outstanding, a teardown through another handle of the     *)
(* connection (the one that follows a poll that returned at once included) *)
(* leaves no registration and no subscription and does not touch the       *)
(* first poller's pollfd; until the next call nothing is registered, and a *)
(* poller whose registration is gone is not posted by a later enqueue or   *)
(* callback.                                                               *)
RegisteredThrough(p, h) ==
    /\ conn.pollsem = p /\ conn.pollevent = p
    /\ fds[p].active /\ fds[p].h = h

TeardownByOtherHandle ==
    \A h, h1 \in Handles, p \in PollFds :
        (h1 # h /\ RegisteredThrough(p, h1) /\ Unpoll(h)) =>
            /\ conn'.pollsem = NULL /\ conn'.pollevent = NULL
            /\ ~notif'
            /\ fds' = fds

NothingLeftByTeardown ==
    (last = Returned("unpoll", OK) /\ conn.alloc) =>
        (conn.pollsem = NULL /\ conn.pollevent = NULL /\ ~notif)

UnregisteredNotPosted ==
    \A p \in PollFds :
        (fds[p].active /\ conn.pollsem # p) => fds'[p].sem = fds[p].sem

C31_TeardownThroughAnyHandle ==
    /\ [][TeardownByOtherHandle]_vars /\ [](NothingLeftByTeardown)
    /\ [][UnregisteredNotPosted]_vars

(* C31 witness: a poller waits for POLLIN on handle 1, a poll for POLLOUT  *)
(* on handle 2 returned at once and its teardown was the last call; a      *)
(* response was enqueued, no callback is pending, and the first poller's   *)
(* semaphore was not posted.                                               *)
C31_Witness ==
    /\ last = Returned("unpoll", OK)
    /\ conn.alloc /\ sock[1].conn /\ sock[2].conn
    /\ conn.pollsem = NULL /\ conn.pollevent = NULL /\ ~notif /\ work = 0
    /\ conn.resplist # <<>> /\ nextid = 2
    /\ \E p, q \in PollFds :
          /\ fds[p] = [active |-> TRUE, h |-> 1, revents |-> {}, sem |-> 0]
          /\ fds[q] = [active |-> TRUE, h |-> 2, revents |-> {"POLLOUT"}, sem |-> 1]

====
